---- MODULE Spec2Model ----
(***************************************************************************)
(* odoc: the pdoc command line (app/pdoc/cli.py) as driven by the odoc     *)
(* `generate` command (app/__init__.py).                                   *)
(*                                                                         *)
(* Strings are sequences of one-character strings, so that slicing,        *)
(* endswith, lstrip, split, replace and os.path.join are computed on       *)
(* characters, as Python computes them.                                    *)
(***************************************************************************)
EXTENDS Integers, Sequences, FiniteSets, TLC

(***************************************************************************)
(* Bounds of the model.                                                    *)
(***************************************************************************)
\* At most this many paths exist under the output root before the run.
MaxPre == 2
\* Source modification times seen by os.stat range over 1..MaxMtime.
MaxMtime == 2
\* A client follows at most this many redirects in a row.
MaxHops == 3

None == <<"None">>

(***************************************************************************)
(* Python string operations.                                               *)
(***************************************************************************)
\* s.endswith(suf)
EndsWith(s, suf) ==
    /\ Len(s) >= Len(suf)
    /\ SubSeq(s, Len(s) - Len(suf) + 1, Len(s)) = suf

\* s[:-n], n > 0
DropLast(s, n) == SubSeq(s, 1, Len(s) - n)

\* s[n:]
DropFirst(s, n) == SubSeq(s, n + 1, Len(s))

\* s.lstrip(c)
RECURSIVE LStrip(_, _)
LStrip(s, c) ==
    IF s # <<>> /\ Head(s) = c THEN LStrip(Tail(s), c) ELSE s

\* s.split(c): the pieces between the occurrences of c, at least one piece
RECURSIVE SplitFrom(_, _, _)
SplitFrom(s, c, cur) ==
    IF s = <<>> THEN <<cur>>
    ELSE IF Head(s) = c THEN <<cur>> \o SplitFrom(Tail(s), c, <<>>)
    ELSE SplitFrom(Tail(s), c, Append(cur, Head(s)))

Split(s, c) == SplitFrom(s, c, <<>>)

\* s.replace(a, b) for one-character a and b
Replace(s, a, b) == [i \in 1..Len(s) |-> IF s[i] = a THEN b ELSE s[i]]

\* os.path.join(a, b) (posixpath)
PathJoin2(a, b) ==
    IF b # <<>> /\ Head(b) = "/" THEN b
    ELSE IF a = <<>> \/ a[Len(a)] = "/" THEN a \o b
    ELSE a \o <<"/">> \o b

\* os.path.join(a, *parts)
RECURSIVE PathJoin(_, _)
PathJoin(a, parts) ==
    IF parts = <<>> THEN a ELSE PathJoin(PathJoin2(a, Head(parts)), Tail(parts))

\* os.path.dirname(p) (posixpath): the head up to the last slash, with its
\* trailing slashes stripped unless it is all slashes
RECURSIVE RStripSlash(_)
RStripSlash(s) ==
    IF s # <<>> /\ s[Len(s)] = "/" THEN RStripSlash(DropLast(s, 1)) ELSE s

LastSlash(p) ==
    IF \E i \in 1..Len(p) : p[i] = "/"
    THEN CHOOSE i \in 1..Len(p) :
            p[i] = "/" /\ \A j \in (i + 1)..Len(p) : p[j] # "/"
    ELSE 0

dirname(p) ==
    LET head == SubSeq(p, 1, LastSlash(p))
    IN  IF head # <<>> /\ RStripSlash(head) # <<>> THEN RStripSlash(head) ELSE head

\* every proper ancestor directory of a relative path, and the path itself
RECURSIVE PathAndAncestors(_)
PathAndAncestors(p) ==
    IF p = <<>> THEN {} ELSE {p} \cup PathAndAncestors(dirname(p))

(***************************************************************************)
(* pdoc's URL suffixes.                                                    *)
(***************************************************************************)
_URL_MODULE_SUFFIX == <<".", "h", "t", "m", "l">>
_URL_INDEX_MODULE_SUFFIX == <<".", "m", ".", "h", "t", "m", "l">>
_URL_PACKAGE_SUFFIX == <<"/", "i", "n", "d", "e", "x", ".", "h", "t", "m", "l">>

EXT_HTML == <<".", "h", "t", "m", "l">>
EXT_MD == <<".", "m", "d">>

(***************************************************************************)
(* The modules the documentation engine can import: two packages,          *)
(* p{a{c{d}}, b, index} and q{e{g}, f}.  p.a.c.d lies three levels below   *)
(* p, and p.index is a plain module whose name is literally index.         *)
(***************************************************************************)
n_p == <<"p">>
n_pa == <<"p", ".", "a">>
n_pac == <<"p", ".", "a", ".", "c">>
n_pacd == <<"p", ".", "a", ".", "c", ".", "d">>
n_pb == <<"p", ".", "b">>
n_pi == <<"p", ".", "i", "n", "d", "e", "x">>
n_q == <<"q">>
n_qe == <<"q", ".", "e">>
n_qeg == <<"q", ".", "e", ".", "g">>
n_qf == <<"q", ".", "f">>

World == {n_p, n_pa, n_pac, n_pacd, n_pb, n_pi, n_q, n_qe, n_qeg, n_qf}

\* Module.is_package
is_package(m) == m \in {n_p, n_pa, n_pac, n_q, n_qe}

\* Module.submodules(), in discovery order
submodules(m) ==
    CASE m = n_p -> <<n_pa, n_pb, n_pi>>
      [] m = n_pa -> <<n_pac>>
      [] m = n_pac -> <<n_pacd>>
      [] m = n_q -> <<n_qe, n_qf>>
      [] m = n_qe -> <<n_qeg>>
      [] OTHER -> <<>>

\* Module.url(): the dotted path as a relative path, with the package
\* suffix, the suffix of a plain module named index, or the module suffix
url(m) ==
    LET u == Replace(m, ".", "/")
    IN  IF is_package(m) THEN u \o _URL_PACKAGE_SUFFIX
        ELSE IF EndsWith(u, <<"/", "i", "n", "d", "e", "x">>)
             THEN u \o _URL_INDEX_MODULE_SUFFIX
        ELSE u \o _URL_MODULE_SUFFIX

(***************************************************************************)
(* State.                                                                  *)
(***************************************************************************)
VARIABLES
    args,       \* the Args tuple handed to main: modules, html, http, pdf, output_dir, force
    dirs,       \* the directories that exist
    files,      \* the regular files that exist, with their content
    pc,         \* where main is
    exit_code,  \* the code of sys.exit, -1 while none was called
    stdout,     \* what was written to standard output
    stderr,     \* the paths reported on standard error
    modi,       \* position of main's loop over the modules
    todo,       \* the pending calls of write_files, the current one first
    failed,     \* the module whose write raised, None if none raised
    raised,     \* the exception that left main, None if none
    WebDoc,     \* the class attributes of WebDoc: args, template_config, log_request
    httpd,      \* the HTTP server: "none", "serving", "stopped", "closed"
    req,        \* the request of the connection being handled
    resp        \* what the handler did with req

vars == <<args, dirs, files, pc, exit_code, stdout, stderr, modi, todo, failed, raised,
          WebDoc, httpd, req, resp>>

fsvars == <<dirs, files>>
staticvars == <<modi, todo, failed>>
httpvars == <<WebDoc, httpd, req, resp>>

\* No connection is being handled
NoRequest ==
    [method |-> "none", path |-> <<>>, headers |-> [if_none_match |-> None],
     outcome |-> "ok", mtime |-> 0, via |-> "none", hops |-> 0]

\* A handler that returned or raised without sending anything
NoResponse(route, error) ==
    [status |-> 0, headers |-> {}, body |-> None, logged |-> FALSE,
     route |-> route, error |-> error, generated |-> None]

(***************************************************************************)
(* Static generation.                                                      *)
(***************************************************************************)
\* Mutant of ReSubHtml: everything from the first dot on is replaced
ReSubHtml_FromFirstDot(s, ext) == Head(Split(s, ".")) \o ext

\* re.sub(r'\.html$', ext, s)
ReSubHtml(s, ext) ==
    IF EndsWith(s, EXT_HTML) THEN DropLast(s, Len(EXT_HTML)) \o ext ELSE s

\* module_path with the output directory as a parameter
OutPath(output_dir, m, ext) ==
    PathJoin(output_dir, Split(ReSubHtml(url(m), ext), "/"))

module_path(m, ext) == OutPath(args.output_dir, m, ext)

\* os.path.lexists
lexists(pth) == pth \in dirs \/ pth \in DOMAIN files

\* Mutant of QuitPaths: the directory of a package is not looked at
QuitPaths_FileOnly(m, ext) == <<module_path(m, ext)>>

\* The paths _quit_if_exists looks at, in order
QuitPaths(m, ext) ==
    <<module_path(m, ext)>> \o
        (IF is_package(m) THEN <<dirname(module_path(m, ext))>> ELSE <<>>)

\* TRUE when _quit_if_exists(m, ext) calls sys.exit(1)
_quit_if_exists(m, ext) ==
    /\ ~args.force
    /\ \E i \in 1..Len(QuitPaths(m, ext)) : lexists(QuitPaths(m, ext)[i])

\* The paths _quit_if_exists(m, ext) prints to standard error: the loop
\* over the paths prints the first one that exists and exits inside the loop
QuitReport(m, ext) ==
    LET paths == QuitPaths(m, ext)
        hits == {i \in 1..Len(paths) : lexists(paths[i])}
    IN  IF args.force \/ hits = {} THEN <<>>
        ELSE <<paths[CHOOSE i \in hits : \A j \in hits : i <= j]>>

\* The text the engine renders for m: m.html(**kwargs) or m.text(**kwargs)
Rendered(m, ext) == <<"doc", ext, m>>

Put(fs, f, c) == [p \in DOMAIN fs \cup {f} |-> IF p = f THEN c ELSE fs[p]]
Remove(fs, f) == [p \in DOMAIN fs \ {f} |-> fs[p]]

\* os.access(dirpath, os.R_OK)
access(dirpath) == lexists(dirpath)

\* os.makedirs(dirpath)
makedirs(ds, dirpath) == ds \cup PathAndAncestors(dirpath)

\* open(f, 'w+') succeeds: the parent is a directory and f is not one
CanOpen(ds, f) == dirname(f) \in ds /\ f \notin ds

\* os.unlink(f) inside try/except Exception: pass
unlink(fs, f) == IF f \in DOMAIN fs THEN Remove(fs, f) ELSE fs

\* What the with-block leaves on disk when it raises at `step`:
\* "open" before the file is created, "render" after it was created and
\* truncated, "write" after part of the text was written
AfterRaise(fs, f, step) ==
    CASE step = "open" -> fs
      [] step = "render" -> Put(fs, f, <<"empty">>)
      [] step = "write" -> Put(fs, f, <<"partial">>)

\* Mutant of OnWriteError: the file is left as the failure found it
OnWriteError_NoUnlink(fs, f) == fs

\* The except clause of write_files
OnWriteError(fs, f) == unlink(fs, f)

WriteSteps == {"ok", "open", "render", "write"}

\* Mutant of Pending: the submodules wait until the pending calls are done
Pending_SiblingsFirst(m, rest) == rest \o submodules(m)

\* write_files, lines 201-202: the calls for the submodules of m, in
\* discovery order, come before the calls that were pending
Pending(m, rest) == submodules(m) \o rest

\* One call of write_files(m, ext), up to its loop over the submodules
write_files(m, ext) ==
    LET f == module_path(m, ext)
        dirpath == dirname(f)
        ds == IF access(dirpath) THEN dirs ELSE makedirs(dirs, dirpath)
    IN  \E step \in WriteSteps :
          /\ (step = "ok") => CanOpen(ds, f)
          /\ (~CanOpen(ds, f)) => step = "open"
          /\ dirs' = ds
          /\ IF step = "ok"
             THEN /\ files' = Put(files, f, Rendered(m, ext))
                  /\ todo' = Pending(m, Tail(todo))
                  /\ failed' = failed
                  /\ raised' = raised
                  /\ IF todo' = <<>>
                     THEN pc' = "loop" /\ modi' = modi + 1
                     ELSE pc' = "write" /\ modi' = modi
             ELSE /\ files' = OnWriteError(AfterRaise(files, f, step), f)
                  /\ todo' = <<>>
                  /\ failed' = m
                  /\ raised' = <<"Exception", step>>
                  /\ pc' = "raised"
                  /\ modi' = modi

(***************************************************************************)
(* The consolidated document.                                              *)
(***************************************************************************)
\* Mutant of _flatten_submodules: a module is yielded after its submodules
RECURSIVE flatten_PostOrder(_)
flatten_PostOrder(modules) ==
    IF modules = <<>> THEN <<>>
    ELSE flatten_PostOrder(submodules(Head(modules))) \o <<Head(modules)>>
            \o flatten_PostOrder(Tail(modules))

RECURSIVE _flatten_submodules(_), FlattenEach(_)
\* for module in modules: yield module, then its submodules' flattenings
_flatten_submodules(modules) ==
    IF modules = <<>> THEN <<>>
    ELSE <<Head(modules)>> \o FlattenEach(submodules(Head(modules)))
            \o _flatten_submodules(Tail(modules))

\* for submodule in subs: yield from _flatten_submodules((submodule,))
FlattenEach(subs) ==
    IF subs = <<>> THEN <<>>
    ELSE _flatten_submodules(<<Head(subs)>>) \o FlattenEach(Tail(subs))

\* print_pdf: one template pass over the flattened modules
print_pdf(modules) == <<"pdf", _flatten_submodules(modules)>>

(***************************************************************************)
(* The states a run starts in.                                             *)
(***************************************************************************)
OUT == <<"o">>

ArgsSet ==
    [modules : {<<n_p>>, <<n_q>>, <<n_p, n_q>>, <<n_qf>>},
     html : BOOLEAN, http : BOOLEAN, pdf : BOOLEAN,
     output_dir : {OUT, <<>>}, force : BOOLEAN]

\* The extension of the pages a run with arguments a reads or writes
ExtOf(a) == IF a.html \/ a.http THEN EXT_HTML ELSE EXT_MD

\* A page of p.a.c written as a leaf page, as an earlier run may have left it
LeafPage == OUT \o <<"/", "p", "/", "a", "/", "c">> \o EXT_HTML

CandFiles(ext) == {OutPath(OUT, m, ext) : m \in World} \cup {LeafPage}
CandDirs == {dirname(OutPath(OUT, m, EXT_HTML)) : m \in {n \in World : is_package(n)}}
               \cup {OUT}

RECURSIVE SubsetsUpTo(_, _)
SubsetsUpTo(C, k) ==
    IF k = 0 THEN {{}}
    ELSE LET smaller == SubsetsUpTo(C, k - 1)
         IN  smaller \cup {S \cup {x} : S \in smaller, x \in C}

\* What is under the output root before the run: at most MaxPre files (of
\* the candidates cf) and directories, with the directories that hold them
PreStates(cf) ==
    {[files |-> S \cap cf,
      dirs |-> UNION {PathAndAncestors(d) : d \in S \ cf}
                 \cup UNION {PathAndAncestors(dirname(f)) : f \in S \cap cf}] :
        S \in SubsetsUpTo(cf \cup CandDirs, MaxPre)}

PreStatesHtml == PreStates(CandFiles(EXT_HTML))
PreStatesMd == PreStates(CandFiles(EXT_MD))

Init ==
    \E a \in ArgsSet :
      \E pre \in (IF ExtOf(a) = EXT_HTML THEN PreStatesHtml ELSE PreStatesMd) :
        /\ args = a
        /\ dirs = pre.dirs
        /\ files = [f \in pre.files |-> <<"old">>]
        /\ pc = "main"
        /\ exit_code = -1
        /\ stdout = <<>>
        /\ stderr = <<>>
        /\ modi = 0
        /\ todo = <<>>
        /\ failed = None
        /\ raised = None
        /\ WebDoc = [args |-> None, template_config |-> None,
                     log_request |-> "default"]
        /\ httpd = "none"
        /\ req = NoRequest
        /\ resp = NoResponse("none", "none")

(***************************************************************************)
(* main                                                                    *)
(***************************************************************************)
\* main, lines 234-235: args is the Args namedtuple of generate, whose
\* fields cannot be assigned
MainOutputDirDefault ==
    /\ pc = "main"
    /\ (args.html \/ args.http) /\ args.output_dir = <<>>
    /\ pc' = "raised"
    /\ raised' = <<"AttributeError">>
    /\ UNCHANGED <<args, fsvars, exit_code, stdout, stderr, staticvars, httpvars>>

\* Mutant of MainPdf: the pdf option is looked at before the http option
MainPdf_BeforeHttp ==
    /\ pc = "main"
    /\ ~((args.html \/ args.http) /\ args.output_dir = <<>>)
    /\ args.pdf
    /\ stdout' = Append(stdout, print_pdf(args.modules))
    /\ pc' = "exited"
    /\ exit_code' = 0
    /\ UNCHANGED <<args, fsvars, stderr, staticvars, raised, httpvars>>

\* main, lines 282-314
MainPdf ==
    /\ pc = "main"
    /\ ~((args.html \/ args.http) /\ args.output_dir = <<>>)
    /\ ~args.http
    /\ args.pdf
    /\ stdout' = Append(stdout, print_pdf(args.modules))
    /\ pc' = "exited"
    /\ exit_code' = 0
    /\ UNCHANGED <<args, fsvars, stderr, staticvars, raised, httpvars>>

\* main, lines 276-280 and 316: the modules are resolved and the loop begins
MainModules ==
    /\ pc = "main"
    /\ ~((args.html \/ args.http) /\ args.output_dir = <<>>)
    /\ ~args.http
    /\ ~args.pdf
    /\ pc' = "loop"
    /\ modi' = 1
    /\ UNCHANGED <<args, fsvars, exit_code, stdout, stderr, todo, failed, raised, httpvars>>

\* The extension main's loop generates, None for standard output
LoopExt ==
    IF args.html THEN EXT_HTML
    ELSE IF args.output_dir # <<>> THEN EXT_MD
    ELSE None

\* main, lines 317-322: the collision check, then the first call of write_files
LoopGenerate ==
    /\ pc = "loop"
    /\ modi <= Len(args.modules)
    /\ LoopExt # None
    /\ IF _quit_if_exists(args.modules[modi], LoopExt)
       THEN /\ pc' = "exited"
            /\ exit_code' = 1
            /\ todo' = todo
       ELSE /\ pc' = "write"
            /\ exit_code' = exit_code
            /\ todo' = <<args.modules[modi]>>
    /\ stderr' = stderr \o QuitReport(args.modules[modi], LoopExt)
    /\ UNCHANGED <<args, fsvars, stdout, modi, failed, raised, httpvars>>

\* write_files, lines 180-202: one call, its submodules pushed for later
WriteFiles ==
    /\ pc = "write"
    /\ todo # <<>>
    /\ write_files(Head(todo), LoopExt)
    /\ UNCHANGED <<args, exit_code, stdout, stderr, httpvars>>

\* main, lines 323-326
LoopStdout ==
    /\ pc = "loop"
    /\ modi <= Len(args.modules)
    /\ LoopExt = None
    /\ stdout' = stdout \o
          << Rendered(args.modules[modi], EXT_MD),
             <<"linesep",
               1 + 2 * (IF args.modules[modi] # args.modules[Len(args.modules)]
                        THEN 1 ELSE 0)>> >>
    /\ modi' = modi + 1
    /\ UNCHANGED <<args, fsvars, pc, exit_code, stderr, todo, failed, raised, httpvars>>

\* main returns after the last module
LoopEnd ==
    /\ pc = "loop"
    /\ modi > Len(args.modules)
    /\ pc' = "returned"
    /\ UNCHANGED <<args, fsvars, exit_code, stdout, stderr, staticvars, raised, httpvars>>

NextCli ==
    \/ MainOutputDirDefault
    \/ MainPdf
    \/ MainModules
    \/ LoopGenerate
    \/ WriteFiles
    \/ LoopStdout
    \/ LoopEnd

InitCli == Init /\ ~args.http

\* The runs of main without the http option
SpecCli == InitCli /\ [][NextCli]_vars

(***************************************************************************)
(* The Live Server: WebDoc.                                                *)
(***************************************************************************)
\* The characters of the module names, in the order Python compares them
Alphabet == <<".", "a", "b", "c", "d", "e", "f", "g", "p", "q", "z">>
Ord(ch) == CHOOSE i \in 1..Len(Alphabet) : Alphabet[i] = ch

\* a < b for Python strings
RECURSIVE StrLess(_, _)
StrLess(a, b) ==
    IF b = <<>> THEN FALSE
    ELSE IF a = <<>> THEN TRUE
    ELSE IF Head(a) = Head(b) THEN StrLess(Tail(a), Tail(b))
    ELSE Ord(Head(a)) < Ord(Head(b))

\* sorted(names)
RECURSIVE sorted(_)
sorted(names) ==
    IF names = <<>> THEN <<>>
    ELSE LET least == CHOOSE i \in 1..Len(names) :
                        \A j \in 1..Len(names) : ~StrLess(names[j], names[i])
         IN  <<names[least]>> \o
             sorted([k \in 1..(Len(names) - 1) |->
                        IF k < least THEN names[k] ELSE names[k + 1]])

\* str(st_mtime) of a modification time of t seconds
Digits == <<"0", "1", "2", "3", "4", "5", "6", "7", "8", "9">>
str(t) == <<Digits[t + 1], ".", "0">>

\* WebDoc.import_path_from_req_url
StripSuffix(pth) ==
    IF EndsWith(pth, <<"/">>) THEN DropLast(pth, 1)
    ELSE IF EndsWith(pth, _URL_PACKAGE_SUFFIX)
        THEN DropLast(pth, Len(_URL_PACKAGE_SUFFIX))
    ELSE IF EndsWith(pth, _URL_INDEX_MODULE_SUFFIX)
        THEN DropLast(pth, Len(_URL_INDEX_MODULE_SUFFIX))
    ELSE IF EndsWith(pth, _URL_MODULE_SUFFIX)
        THEN DropLast(pth, Len(_URL_MODULE_SUFFIX))
    ELSE pth

import_path_from_req_url(path) ==
    Replace(StripSuffix(LStrip(Head(Split(path, "#")), "/")), "/", ".")

\* os.path.isfile
isfile(f) == f \in DOMAIN files

\* exists(p) inside resolve_ext
exists(p) ==
    LET full == PathJoin2(args.output_dir, p)
        pkg == PathJoin2(full, LStrip(_URL_PACKAGE_SUFFIX, "/"))
        mod == full \o _URL_MODULE_SUFFIX
    IN  IF isfile(pkg) THEN DropFirst(pkg, Len(args.output_dir))
        ELSE IF isfile(mod) THEN DropFirst(mod, Len(args.output_dir))
        ELSE None

\* Mutant of resolve_from: the prefixes are tried shortest first
RECURSIVE resolve_ShortestFirst(_, _, _)
resolve_ShortestFirst(import_path, parts, i) ==
    LET j == Len(parts) - i + 1
    IN  IF i = 0 THEN None
        ELSE LET realp == exists(PathJoin(parts[1], SubSeq(parts, 2, j)))
             IN  IF realp # None
                 THEN <<"/">> \o LStrip(realp, "/") \o <<"#">> \o import_path
                 ELSE resolve_ShortestFirst(import_path, parts, i - 1)

\* The loop of resolve_ext: for i in range(len(parts), 0, -1), from i on
RECURSIVE resolve_from(_, _, _)
resolve_from(import_path, parts, i) ==
    IF i = 0 THEN None
    ELSE LET realp == exists(PathJoin(parts[1], SubSeq(parts, 2, i)))
         IN  IF realp # None
             THEN <<"/">> \o LStrip(realp, "/") \o <<"#">> \o import_path
             ELSE resolve_from(import_path, parts, i - 1)

\* WebDoc.resolve_ext
resolve_ext(import_path) ==
    LET parts == Split(import_path, ".")
    IN  resolve_from(import_path, parts, Len(parts))

CONTENT_TYPE == <<"Content-type", "text/html; charset=utf-8">>
EXT_SUFFIX == <<".", "e", "x", "t">>
FAVICON == <<"/", "f", "a", "v", "i", "c", "o", "n", ".", "i", "c", "o">>

\* send_response(status), the headers, end_headers, and echo(body) if any
Response(route, status, headers, body, logged, generated) ==
    [status |-> status, headers |-> headers, body |-> body, logged |-> logged,
     route |-> route, error |-> "none", generated |-> generated]

\* Mutant of redirect: the Location header is not sent
redirect_NoLocation(route, location) ==
    Response(route, 302, {}, None, TRUE, None)

\* WebDoc.redirect
redirect(route, location) ==
    Response(route, 302, {<<"Location", location>>}, None, TRUE, None)

\* What the engine may do with the module `name`: resolve and render it,
\* fail to import it, or fail while rendering it
EngineOutcomes(name) ==
    IF name \in World THEN {"ok", "ImportError", "Exception"} ELSE {"ImportError"}

\* Mutant of check_modified: the tags are not compared
check_modified_NoCompare(path, headers, resolves, mtime) ==
    IF ~resolves THEN [status |-> 404, logged |-> TRUE]
    ELSE [status |-> 304, logged |-> FALSE]

\* Mutant of check_modified: a missing If-None-Match header counts as the
\* empty tag
check_modified_DefaultEmpty(path, headers, resolves, mtime) ==
    IF ~resolves THEN [status |-> 404, logged |-> TRUE]
    ELSE LET new_etag == str(mtime)
             old_etag == IF headers.if_none_match = None THEN <<>>
                         ELSE headers.if_none_match
         IN  IF old_etag = new_etag
             THEN [status |-> 304, logged |-> FALSE]
             ELSE [status |-> 205, logged |-> TRUE]

\* WebDoc.check_modified: the status, and whether the request is logged
check_modified(path, headers, resolves, mtime) ==
    IF ~resolves THEN [status |-> 404, logged |-> TRUE]
    ELSE LET new_etag == str(mtime)
             old_etag == IF headers.if_none_match = None THEN new_etag
                         ELSE headers.if_none_match
         IN  IF old_etag = new_etag
             THEN [status |-> 304, logged |-> FALSE]
             ELSE [status |-> 205, logged |-> TRUE]

\* Mutant of do_HEAD: the Content-type header is not sent
do_HEAD_NoContentType(path, headers, resolves, mtime) ==
    LET checked == IF path # <<"/">>
                   THEN check_modified(path, headers, resolves, mtime)
                   ELSE [status |-> 200, logged |-> TRUE]
    IN  Response("head", checked.status, {}, None, checked.logged, None)

\* WebDoc.do_HEAD
do_HEAD(path, headers, resolves, mtime) ==
    LET checked == IF path # <<"/">>
                   THEN check_modified(path, headers, resolves, mtime)
                   ELSE [status |-> 200, logged |-> TRUE]
    IN  Response("head", checked.status, {CONTENT_TYPE}, None, checked.logged, None)

\* Mutant of GetRoute: the missing trailing slash is looked at before '.ext'
GetRoute_SlashFirst(path) ==
    IF path = FAVICON THEN "favicon"
    ELSE IF path = <<"/">> THEN "index"
    ELSE IF ~(EndsWith(path, <<"/">>) \/ EndsWith(path, EXT_HTML)) THEN "slash"
    ELSE IF EndsWith(path, EXT_SUFFIX) THEN "ext"
    ELSE IF EndsWith(path, _URL_PACKAGE_SUFFIX) THEN "pkgindex"
    ELSE "render"

\* The route of do_GET that answers path
GetRoute(path) ==
    IF path = FAVICON THEN "favicon"
    ELSE IF path = <<"/">> THEN "index"
    ELSE IF EndsWith(path, EXT_SUFFIX) THEN "ext"
    ELSE IF ~(EndsWith(path, <<"/">>) \/ EndsWith(path, EXT_HTML)) THEN "slash"
    ELSE IF EndsWith(path, _URL_PACKAGE_SUFFIX) THEN "pkgindex"
    ELSE "render"

\* do_GET, lines 55-62
GetIndex(outcome) ==
    IF outcome = "ok"
    THEN Response("index", 200, {CONTENT_TYPE},
                  <<"index", sorted(WebDoc.args.modules), WebDoc.template_config>>,
                  TRUE, None)
    ELSE NoResponse("index", outcome)

\* Mutant of GetExt: only an ImportError of the generation is caught
GetExt_ImportErrorOnly(path, outcome) ==
    LET import_path == LStrip(DropLast(path, 4), "/")
        resolved == resolve_ext(import_path)
        top == Head(Split(import_path, "."))
    IN  IF resolved = None
        THEN CASE outcome = "ok" ->
                    Response("ext", 200, {CONTENT_TYPE},
                             <<"html", top, WebDoc.template_config>>, TRUE, top)
               [] outcome = "ImportError" ->
                    Response("ext", 404, {CONTENT_TYPE},
                             <<"External identifier not found", import_path>>,
                             TRUE, top)
               [] OTHER -> NoResponse("ext", outcome)
        ELSE redirect("ext", resolved)

\* do_GET, lines 63-89
GetExt(path, outcome) ==
    LET import_path == LStrip(DropLast(path, 4), "/")
        resolved == resolve_ext(import_path)
        top == Head(Split(import_path, "."))
    IN  IF resolved = None
        THEN IF outcome = "ok"
             THEN Response("ext", 200, {CONTENT_TYPE},
                           <<"html", top, WebDoc.template_config>>, TRUE, top)
             ELSE Response("ext", 404, {CONTENT_TYPE},
                           <<"External identifier not found", import_path>>,
                           TRUE, top)
        ELSE redirect("ext", resolved)

\* do_GET, lines 97-102, with WebDoc.html
GetRender(path, outcome) ==
    CASE outcome = "ok" ->
            Response("render", 200, {CONTENT_TYPE},
                     <<"html", import_path_from_req_url(path), WebDoc.template_config>>,
                     TRUE, import_path_from_req_url(path))
      [] outcome = "ImportError" ->
            Response("render", 404, {CONTENT_TYPE},
                     <<"Module not found", import_path_from_req_url(path)>>,
                     TRUE, import_path_from_req_url(path))
      [] OTHER -> NoResponse("render", outcome)

\* do_GET, line 93: where '/pdoc' is redirected
SlashLocation(path) == path \o <<"/">>

\* Mutant of PkgIndexLocation: the suffix is cut and no slash is appended
PkgIndexLocation_NoSlash(path) == DropLast(path, Len(_URL_PACKAGE_SUFFIX))

\* do_GET, line 96: where '/pdoc/index.html' is redirected
PkgIndexLocation(path) == DropLast(path, Len(_URL_PACKAGE_SUFFIX)) \o <<"/">>

\* WebDoc.do_GET
do_GET(path, outcome) ==
    LET route == GetRoute(path)
    IN  CASE route = "favicon" -> NoResponse("favicon", "none")
          [] route = "index" -> GetIndex(outcome)
          [] route = "ext" -> GetExt(path, outcome)
          [] route = "slash" -> redirect("slash", SlashLocation(path))
          [] route = "pkgindex" -> redirect("pkgindex", PkgIndexLocation(path))
          [] OTHER -> GetRender(path, outcome)

\* The module the engine is asked for while path is answered, None if none
EngineTarget(path) ==
    CASE GetRoute(path) = "ext" -> Head(Split(LStrip(DropLast(path, 4), "/"), "."))
      [] GetRoute(path) = "render" -> import_path_from_req_url(path)
      [] OTHER -> None

\* The request paths of the model
ReqPaths ==
    { <<"/">>,
      FAVICON,
      <<"/", "p">>,
      <<"/", "p", "/">>,
      <<"/", "p">> \o _URL_PACKAGE_SUFFIX,
      <<"/", "p", "/", "b">> \o EXT_HTML,
      <<"/", "p", "/", "a", "/">>,
      <<"/", "z", "/">>,
      _URL_PACKAGE_SUFFIX,
      <<"/", "p", ".", "a", ".", "z">> \o EXT_SUFFIX,
      <<"/", "p", ".", "a", ".", "c", ".", "z">> \o EXT_SUFFIX,
      <<"/", "q", ".", "f">> \o EXT_SUFFIX,
      <<"/", "z", ".", "z">> \o EXT_SUFFIX,
      <<"/", "p", "/", "b">> \o EXT_SUFFIX }

\* main, lines 251-271: the server starts
MainHttp ==
    /\ pc = "main"
    /\ ~((args.html \/ args.http) /\ args.output_dir = <<>>)
    /\ args.http
    /\ WebDoc' = [WebDoc EXCEPT !.args = args,
                                !.template_config = [link_prefix |-> <<"/">>]]
    /\ httpd' = "serving"
    /\ pc' = "serve"
    /\ UNCHANGED <<args, fsvars, exit_code, stdout, stderr, staticvars, raised, req, resp>>

\* Mutant of SetLogRequest: the assignment goes to the class
SetLogRequest_OnClass(cls, r) ==
    IF r.status = 304 THEN [cls EXCEPT !.log_request = "suppressed"] ELSE cls

\* check_modified, line 43: what the assignment to self.log_request does
\* to the class WebDoc: nothing, it sets an attribute of the handler of
\* this request (r.logged)
SetLogRequest(cls, r) == cls

\* self.log_request as send_response calls it: the attribute of the
\* handler if line 43 set one, else the attribute of the class
log_request(r) ==
    [r EXCEPT !.logged = r.logged /\ WebDoc.log_request = "default"]

\* What the engine may do while do_GET answers path
GetOutcomes(path) ==
    IF GetRoute(path) = "index" THEN {"ok", "ImportError", "Exception"}
    ELSE IF EngineTarget(path) = None THEN {"ok"}
    ELSE EngineOutcomes(EngineTarget(path))

\* A connection is accepted and its GET request is handled
HandleGET ==
    /\ pc = "serve" /\ httpd = "serving"
    /\ req = NoRequest
    /\ \E path \in ReqPaths : \E outcome \in GetOutcomes(path) :
            /\ req' = [method |-> "GET", path |-> path,
                       headers |-> [if_none_match |-> None],
                       outcome |-> outcome, mtime |-> 0, via |-> "none", hops |-> 0]
            /\ resp' = log_request(do_GET(path, outcome))
    /\ UNCHANGED <<args, fsvars, pc, exit_code, stdout, stderr, staticvars, raised, WebDoc, httpd>>

\* The client follows a redirect: a GET of the Location, without its fragment
FollowRedirect ==
    /\ pc = "serve" /\ httpd = "serving"
    /\ req.method = "GET" /\ resp.status = 302
    /\ req.hops < MaxHops
    /\ \E h \in resp.headers :
         /\ h[1] = "Location"
         /\ LET path == Head(Split(h[2], "#"))
            IN  \E outcome \in GetOutcomes(path) :
                  /\ req' = [method |-> "GET", path |-> path,
                             headers |-> [if_none_match |-> None],
                             outcome |-> outcome, mtime |-> 0,
                             via |-> resp.route, hops |-> req.hops + 1]
                  /\ resp' = log_request(do_GET(path, outcome))
    /\ UNCHANGED <<args, fsvars, pc, exit_code, stdout, stderr, staticvars, raised, WebDoc, httpd>>

\* A connection is accepted and its HEAD request is handled
HandleHEAD ==
    /\ pc = "serve" /\ httpd = "serving"
    /\ req = NoRequest
    /\ \E path \in ReqPaths :
       \E inm \in {None} \cup {str(t) : t \in 1..MaxMtime} :
       \E mtime \in 1..MaxMtime :
       \E outcome \in EngineOutcomes(import_path_from_req_url(path)) \ {"Exception"} :
            /\ req' = [method |-> "HEAD", path |-> path,
                       headers |-> [if_none_match |-> inm],
                       outcome |-> outcome, mtime |-> mtime, via |-> "none", hops |-> 0]
            /\ resp' = log_request(do_HEAD(path, [if_none_match |-> inm],
                                            outcome = "ok", mtime))
    /\ WebDoc' = SetLogRequest(WebDoc, resp')
    /\ UNCHANGED <<args, fsvars, pc, exit_code, stdout, stderr, staticvars, raised, httpd>>

\* The connection is closed and its handler, with the request, is dropped
Finish ==
    /\ pc = "serve"
    /\ req # NoRequest
    /\ req' = NoRequest
    /\ resp' = NoResponse("none", "none")
    /\ UNCHANGED <<args, fsvars, pc, exit_code, stdout, stderr, staticvars, raised, WebDoc, httpd>>

\* httpd.shutdown() is called from outside
Shutdown ==
    /\ pc = "serve" /\ httpd = "serving"
    /\ httpd' = "stopping"
    /\ UNCHANGED <<args, fsvars, pc, exit_code, stdout, stderr, staticvars, raised, WebDoc, req, resp>>

\* Mutant of ServerClose: the process exits without server_close()
ServerClose_NoClose ==
    /\ pc = "serve" /\ httpd = "stopping"
    /\ req = NoRequest
    /\ pc' = "exited"
    /\ exit_code' = 0
    /\ UNCHANGED <<args, fsvars, stdout, stderr, staticvars, raised, httpvars>>

\* main, lines 272-274: serve_forever has returned, no request in flight
ServerClose ==
    /\ pc = "serve" /\ httpd = "stopping"
    /\ req = NoRequest
    /\ httpd' = "closed"
    /\ pc' = "exited"
    /\ exit_code' = 0
    /\ UNCHANGED <<args, fsvars, stdout, stderr, staticvars, raised, WebDoc, req, resp>>

NextHttp ==
    \/ MainOutputDirDefault
    \/ MainHttp
    \/ HandleGET
    \/ FollowRedirect
    \/ HandleHEAD
    \/ Finish
    \/ Shutdown
    \/ ServerClose

\* The runs with the http option, which main looks at before pdf, and
\* which never reach the collision check that reads force.  The output
\* root holds at most MaxPre pages of an earlier run.
InitHttp ==
    /\ Init
    /\ args.http /\ ~args.pdf /\ ~args.force
    /\ dirs = UNION {PathAndAncestors(dirname(f)) : f \in DOMAIN files}

\* The runs of main with the http option
SpecHttp == InitHttp /\ [][NextHttp]_vars

\* The runs of main with the http option on an empty output root, where
\* a handler that was started finishes, and serve_forever, which polls the
\* shutdown request between two requests, returns once it was set
InitServe == InitHttp /\ dirs = {} /\ DOMAIN files = {}

SpecServe ==
    InitServe /\ [][NextHttp]_vars /\ WF_vars(Finish) /\ WF_vars(ServerClose)

\* Every step of main, in any mode
NextMain ==
    \/ MainOutputDirDefault
    \/ MainPdf
    \/ MainModules
    \/ LoopGenerate
    \/ WriteFiles
    \/ LoopStdout
    \/ LoopEnd
    \/ MainHttp
    \/ HandleGET
    \/ FollowRedirect
    \/ HandleHEAD
    \/ Finish
    \/ Shutdown
    \/ ServerClose

\* Every combination of the options; a server starts on an empty output root
InitMain ==
    /\ Init
    /\ args.http => (dirs = {} /\ DOMAIN files = {})

\* The runs of main in every mode
SpecMain == InitMain /\ [][NextMain]_vars

(***************************************************************************)
(* Properties.                                                             *)
(***************************************************************************)
Range(seq) == {seq[i] : i \in 1..Len(seq)}
IndexOf(seq, x) == CHOOSE i \in 1..Len(seq) : seq[i] = x

\* The descendants of m: the least set closed under submodules
RECURSIVE DescendantsFrom(_)
DescendantsFrom(S) ==
    LET more == S \cup UNION {Range(submodules(m)) : m \in S}
    IN  IF more = S THEN S ELSE DescendantsFrom(more)

Descendants(m) == DescendantsFrom(Range(submodules(m)))
TreeOf(m) == {m} \cup Descendants(m)

\* The files this run has written
Written == {f \in DOMAIN files : files[f] # <<"old">>}

\* C1: in a static run without force, when a file exists before the run at
\* the mapped path of any module of the (first) requested tree, the run
\* never gets past the collision check of that tree: it ends with exit
\* code 1, and no file is written, neither for the root nor for any
\* module without a collision.
C1_PreflightAbort ==
    (/\ ~args.http /\ ~args.pdf /\ ~args.force /\ LoopExt # None
     /\ \E m \in TreeOf(args.modules[1]) :
            /\ module_path(m, LoopExt) \in DOMAIN files
            /\ files[module_path(m, LoopExt)] = <<"old">>)
    => /\ pc \in {"main", "loop", "exited"}
       /\ pc = "loop" => modi = 1
       /\ pc = "exited" => exit_code = 1
       /\ Written = {}
       /\ todo = <<>>

\* C1 witness: the only path that exists before the run is the file of
\* p.a.c.d, three levels below the root p, and the run has ended with 1
C1_Witness ==
    /\ args.modules = <<n_p>> /\ ~args.force /\ args.html
    /\ DOMAIN files = {module_path(n_pacd, EXT_HTML)}
    /\ pc = "exited" /\ exit_code = 1

\* C2: when rendering or writing module X fails, then once write_files has
\* raised, the file of X does not exist, every module before X in the
\* traversal order of the tree has its complete file, and no module after
\* X has been written.
C2_AtomicPerFile ==
    (pc = "raised" /\ failed # None) =>
        LET root == args.modules[modi]
            order == _flatten_submodules(<<root>>)
            k == IndexOf(order, failed)
        IN  /\ failed \in Range(order)
            /\ ~lexists(module_path(failed, LoopExt))
            /\ \A i \in 1..Len(order) :
                 LET f == module_path(order[i], LoopExt)
                 IN  /\ i < k => (f \in DOMAIN files
                                   /\ files[f] = Rendered(order[i], LoopExt))
                     /\ i > k => f \notin Written

\* C2 witness: the write of p.a.c failed after part of the text was
\* written, over a file that was there before the run
C2_Witness ==
    /\ pc = "raised" /\ failed = n_pac /\ raised = <<"Exception", "write">>
    /\ args.force
    /\ module_path(n_pa, LoopExt) \in Written
    /\ module_path(n_pacd, LoopExt) \in DOMAIN files

\* C10: the consolidated document lists the forest of the root modules in
\* depth-first pre-order: each module of the forest once, each module right
\* before the block of its descendants, submodules in discovery order,
\* roots in the given order; for q{e{g}, f} exactly [q, q.e, q.e.g, q.f].
C10_FlattenPreOrder ==
    (pc = "exited" /\ args.pdf /\ exit_code = 0) =>
        LET seq == stdout[1][2]
            forest == UNION {TreeOf(r) : r \in Range(args.modules)}
            idx(m) == IndexOf(seq, m)
        IN  /\ stdout[1][1] = "pdf"
            /\ Range(seq) = forest
            /\ Len(seq) = Cardinality(forest)
            /\ \A m \in forest :
                 /\ idx(m) + Cardinality(Descendants(m)) <= Len(seq)
                 /\ {seq[i] : i \in (idx(m) + 1)..(idx(m) + Cardinality(Descendants(m)))}
                        = Descendants(m)
                 /\ \A i, j \in 1..Len(submodules(m)) :
                        i < j => idx(submodules(m)[i]) < idx(submodules(m)[j])
            /\ \A i, j \in 1..Len(args.modules) :
                 i < j => idx(args.modules[i]) < idx(args.modules[j])
            /\ args.modules = <<n_q>> => seq = <<n_q, n_qe, n_qeg, n_qf>>

\* C10 witness: the document of the tree q{e{g}, f} has been emitted
C10_Witness ==
    /\ pc = "exited" /\ args.pdf /\ args.modules = <<n_q>>
    /\ Len(stdout) = 1 /\ Len(stdout[1][2]) = 4

\* The Location header of the response, None if it has none
Location ==
    IF \E h \in resp.headers : h[1] = "Location"
    THEN (CHOOSE h \in resp.headers : h[1] = "Location")[2]
    ELSE None

\* C3: a HEAD of '/' is answered 200; a HEAD of another path is answered
\* 404 when its module cannot be resolved, 304 when it resolves and the
\* If-None-Match tag is the one derived from the source's modification
\* time, and 205 when it resolves and the client's tag is another one.
C3_HeadStatus ==
    req.method = "HEAD" =>
        /\ req.path = <<"/">> => resp.status = 200
        /\ req.path = <<"/", "z", "/">> => resp.status = 404
        /\ req.path # <<"/">> =>
            /\ req.outcome # "ok" => resp.status = 404
            /\ (req.outcome = "ok" /\ req.headers.if_none_match = str(req.mtime))
                    => resp.status = 304
            /\ (/\ req.outcome = "ok"
                /\ req.headers.if_none_match # None
                /\ req.headers.if_none_match # str(req.mtime))
                    => resp.status = 205

\* C3 witness: a HEAD of /p/b.html with the tag of an older modification
\* time has been answered 205
C3_Witness ==
    /\ req.method = "HEAD" /\ req.path = <<"/", "p", "/", "b">> \o EXT_HTML
    /\ req.mtime = 2 /\ req.headers.if_none_match = str(1)
    /\ resp.status = 205

\* The identifier of a '.ext' request path
ExtIdentifier(path) == LStrip(DropLast(path, Len(EXT_SUFFIX)), "/")

\* The pages of the first i components of identifier id that exist: the web
\* paths of the package index and of the leaf page
PrefixPages(id, i) ==
    LET parts == Split(id, ".")
        web == <<"/">> \o PathJoin(<<>>, [k \in 1..i |-> parts[k]])
    IN  {pg \in {web \o _URL_PACKAGE_SUFFIX, web \o _URL_MODULE_SUFFIX} :
            (args.output_dir \o pg) \in DOMAIN files}

\* C4: resolve_ext returns a page of the longest dot-prefix of the
\* identifier that has a package-index or a leaf file under the output
\* root, with '#' and the whole identifier appended, and None exactly when
\* no prefix has a page; with the pages of p (index) and p.a.c (leaf),
\* p.a.z resolves into the index page of p and p.a.c.z into the page of p.a.c.
C4_LongestPrefix ==
    (req.method = "GET" /\ resp.route = "ext") =>
        LET id == ExtIdentifier(req.path)
            n == Len(Split(id, "."))
            hits == {i \in 1..n : PrefixPages(id, i) # {}}
            longest == CHOOSE i \in hits : \A j \in hits : j <= i
        IN  /\ (hits = {}) <=> (resolve_ext(id) = None)
            /\ hits # {} =>
                /\ resolve_ext(id) \in {pg \o <<"#">> \o id : pg \in PrefixPages(id, longest)}
                /\ Location = resolve_ext(id)
            /\ (/\ DOMAIN files = {OUT \o <<"/", "p">> \o _URL_PACKAGE_SUFFIX, LeafPage}
                /\ id = <<"p", ".", "a", ".", "z">>)
                  => Location = <<"/", "p">> \o _URL_PACKAGE_SUFFIX \o <<"#">> \o id
            /\ (/\ DOMAIN files = {OUT \o <<"/", "p">> \o _URL_PACKAGE_SUFFIX, LeafPage}
                /\ id = <<"p", ".", "a", ".", "c", ".", "z">>)
                  => Location = <<"/", "p", "/", "a", "/", "c">> \o EXT_HTML
                                    \o <<"#">> \o id

\* C4 witness: with the pages of p and p.a.c, p.a.c.z has been resolved
\* into the page of p.a.c
C4_Witness ==
    /\ req.method = "GET" /\ resp.route = "ext"
    /\ DOMAIN files = {OUT \o <<"/", "p">> \o _URL_PACKAGE_SUFFIX, LeafPage}
    /\ ExtIdentifier(req.path) = <<"p", ".", "a", ".", "c", ".", "z">>
    /\ resp.status = 302

EngineInvoked ==
    \/ req.method = "HEAD" /\ req.path # <<"/">>
    \/ req.method = "GET" /\ resp.route \in {"index", "render"}
    \/ req.method = "GET" /\ resp.route = "ext" /\ resp.generated # None

\* C6: a request whose content generation fails, with a render error as
\* with an import error, is answered 404.
C6_GenerationFailureIs404 ==
    (EngineInvoked /\ req.outcome # "ok") => resp.status = 404

\* C7: do_GET answers by the first route that matches, in the order
\* favicon, root index, '.ext', missing trailing slash, package-index
\* suffix, default render, and the response is the one of that route alone:
\* a '.ext' path is never redirected to itself plus a slash, and '/' is
\* never redirected.
C7_RouteOrder ==
    req.method = "GET" =>
        LET path == req.path
            isFav == path = FAVICON
            isRoot == path = <<"/">>
            isExt == EndsWith(path, EXT_SUFFIX)
            noSlash == ~EndsWith(path, <<"/">>) /\ ~EndsWith(path, EXT_HTML)
            isPkg == EndsWith(path, _URL_PACKAGE_SUFFIX)
        IN  /\ resp.route = "favicon" <=> isFav
            /\ resp.route = "index" <=> (~isFav /\ isRoot)
            /\ resp.route = "ext" <=> (~isFav /\ ~isRoot /\ isExt)
            /\ resp.route = "slash" <=> (~isFav /\ ~isRoot /\ ~isExt /\ noSlash)
            /\ resp.route = "pkgindex"
                    <=> (~isFav /\ ~isRoot /\ ~isExt /\ ~noSlash /\ isPkg)
            /\ resp.route = "render"
                    <=> (~isFav /\ ~isRoot /\ ~isExt /\ ~noSlash /\ ~isPkg)
            /\ isFav => resp.status = 0
            /\ isRoot => resp.status \in {0, 200}
            /\ isExt => Location # path \o <<"/">>
            /\ resp.route = "slash" => Location = path \o <<"/">>
            /\ resp.route = "pkgindex" => resp.status = 302
            /\ resp.route = "render" => resp.status \in {0, 200, 404}

\* C7 witness: a '.ext' path, which has no trailing slash either, has been
\* answered by the external-link route
C7_Witness ==
    /\ req.method = "GET"
    /\ req.path = <<"/", "q", ".", "f">> \o EXT_SUFFIX
    /\ resp.route = "ext" /\ resp.status = 200

\* C8: a GET of a path that ends neither in '/' nor in '.html' (and is not
\* /favicon.ico or a '.ext' path) is answered 302 with the path plus '/';
\* a GET of a path that ends in the package-index suffix is answered 302
\* with the suffix replaced by '/'; /p and /p/index.html both lead to /p/;
\* and the GET of such a Location is not answered with a redirect.
C8_RedirectCanonical ==
    req.method = "GET" =>
        /\ (/\ ~EndsWith(req.path, <<"/">>) /\ ~EndsWith(req.path, EXT_HTML)
            /\ req.path # FAVICON /\ ~EndsWith(req.path, EXT_SUFFIX))
              => (resp.status = 302 /\ Location = req.path \o <<"/">>)
        /\ EndsWith(req.path, _URL_PACKAGE_SUFFIX)
              => /\ resp.status = 302
                 /\ Location \o <<"i", "n", "d", "e", "x", ".", "h", "t", "m", "l">>
                        = req.path
        /\ req.path \in {<<"/", "p">>, <<"/", "p", "/", "i", "n", "d", "e", "x", ".", "h", "t", "m", "l">>}
              => Location = <<"/", "p", "/">>
        /\ req.via \in {"slash", "pkgindex"} => resp.status # 302

\* C8 witness: the client was sent from /p/index.html to /p/ and got the page
C8_Witness ==
    /\ req.method = "GET" /\ req.via = "pkgindex"
    /\ req.path = <<"/", "p", "/">>
    /\ resp.status = 200

\* The part of an identifier before its first dot
RECURSIVE BeforeFirstDot(_)
BeforeFirstDot(id) ==
    IF id = <<>> \/ Head(id) = "." THEN <<>>
    ELSE <<Head(id)>> \o BeforeFirstDot(Tail(id))

\* C9: a GET of a '.ext' path is answered 302 with the resolved location,
\* and nothing is generated, when the resolver finds a page; when it finds
\* none, the part of the identifier before its first dot is generated, and
\* the answer is 200 with that page, or 404 when the generation fails in
\* any way.
C9_ExtHitOrGenerate ==
    (req.method = "GET" /\ EndsWith(req.path, EXT_SUFFIX)) =>
        LET id == ExtIdentifier(req.path)
        IN  /\ resolve_ext(id) # None =>
                /\ resp.status = 302
                /\ Location = resolve_ext(id)
                /\ resp.generated = None
            /\ resolve_ext(id) = None =>
                /\ resp.generated = BeforeFirstDot(id)
                /\ req.outcome = "ok" =>
                    /\ resp.status = 200
                    /\ resp.body[1] = "html" /\ resp.body[2] = BeforeFirstDot(id)
                /\ req.outcome # "ok" => resp.status = 404

\* C9 witness: no page of p exists, the generation of p for p.a.z raised a
\* render error and the answer is 404
C9_Witness ==
    /\ req.method = "GET"
    /\ req.path = <<"/", "p", ".", "a", ".", "z">> \o EXT_SUFFIX
    /\ req.outcome = "Exception"
    /\ resp.status = 404 /\ resp.generated = n_p

\* C11: with several requested root modules and without force, a run that
\* ends with exit code 1 because of a collision has written no file of
\* any root module, also when the colliding root is not the first one.
C11_NoPartialWrites ==
    (~args.http /\ ~args.pdf /\ ~args.force /\ LoopExt # None
     /\ pc = "exited" /\ exit_code = 1)
    => Written = {}

\* C12: when the collision check ends the run with exit code 1, every
\* path it looked at that exists has been reported on standard error: for
\* a package whose index file and directory both exist, both paths.
C12_ReportsEveryOffendingPath ==
    (~args.http /\ ~args.pdf /\ ~args.force /\ LoopExt # None
     /\ pc = "exited" /\ exit_code = 1)
    => \A i \in 1..Len(QuitPaths(args.modules[modi], LoopExt)) :
          LET pth == QuitPaths(args.modules[modi], LoopExt)[i]
          IN  lexists(pth) => \E k \in 1..Len(stderr) : stderr[k] = pth

\* The last component of a dotted module name
LastName(m) == LET parts == Split(m, ".") IN parts[Len(parts)]

\* <root>/a/b for the module a.b
UnderRoot(m) == args.output_dir \o <<"/">> \o Replace(m, ".", "/")

\* The path of the claim: <root>/a/b/index<ext> for a package a.b,
\* <root>/a/b/c<ext> for a leaf a.b.c
ClaimedPath(m, ext) ==
    IF is_package(m) THEN UnderRoot(m) \o <<"/", "i", "n", "d", "e", "x">> \o ext
    ELSE UnderRoot(m) \o ext

\* The same, but a leaf named index gets <root>/a/b/index.m<ext>
IndexAwarePath(m, ext) ==
    IF ~is_package(m) /\ LastName(m) = <<"i", "n", "d", "e", "x">>
    THEN UnderRoot(m) \o <<".", "m">> \o ext
    ELSE ClaimedPath(m, ext)

\* The modules of the trees main has completely written
TreesDone ==
    UNION {TreeOf(args.modules[i]) :
             i \in {j \in 1..Len(args.modules) : j < modi}}

Mode ==
    IF args.http THEN "http"
    ELSE IF args.pdf THEN "pdf"
    ELSE IF args.html THEN "html"
    ELSE IF args.output_dir # <<>> THEN "md"
    ELSE "stdout"

\* The mode actions this run has performed so far, by what they leave
ModeActions ==
    {k \in {"http", "pdf", "html", "md", "stdout"} :
        \/ k = "http" /\ httpd # "none"
        \/ k = "pdf" /\ \E i \in 1..Len(stdout) : stdout[i][1] = "pdf"
        \/ k = "html" /\ \E f \in Written : EndsWith(f, EXT_HTML)
        \/ k = "md" /\ \E f \in Written : EndsWith(f, EXT_MD)
        \/ k = "stdout" /\ \E i \in 1..Len(stdout) : stdout[i][1] = "doc"}

C15_ShutdownStopsServer ==
    /\ [](pc = "exited" => (httpd = "closed" /\ exit_code = 0))
    /\ [][(pc = "serve" /\ pc' # "serve") => httpd = "stopping"]_vars
    /\ [](httpd = "serving" => (pc = "serve" /\ exit_code = -1))
    /\ (httpd = "stopping") ~> (pc = "exited")

\* C15 witness: the server was shut down, closed, and the process exited
C15_Witness ==
    /\ args.http
    /\ WebDoc.args = args
    /\ httpd = "closed" /\ pc = "exited" /\ exit_code = 0

\* C16: every answer of the Live Server has a status in {200, 205, 302,
\* 304, 404}; every 302 carries a Location header; 205 and 304 answer
\* HEAD requests only and 302 answers GET requests only.
C16_StatusCodes ==
    (resp.status # 0) =>
        /\ resp.status \in {200, 205, 302, 304, 404}
        /\ resp.status = 302 =>
              /\ req.method = "GET"
              /\ \E h \in resp.headers : h[1] = "Location" /\ h[2] # <<>>
        /\ resp.status \in {205, 304} => req.method = "HEAD"
        /\ req.method = "HEAD" => resp.status \in {200, 205, 304, 404}
        /\ req.method = "GET" => resp.status \in {200, 302, 404}

\* C16 witness: a GET of /p, which lacks the trailing slash, is answered
\* 302 with the Location /p/
C16_Witness ==
    /\ req.method = "GET" /\ req.path = <<"/", "p">>
    /\ resp.status = 302
    /\ <<"Location", <<"/", "p", "/">>>> \in resp.headers

\* The file of m holds the complete text of m
Complete(m) ==
    /\ module_path(m, LoopExt) \in DOMAIN files
    /\ files[module_path(m, LoopExt)] = Rendered(m, LoopExt)

\* The file of m was created or overwritten by this run
Touched(m) == module_path(m, LoopExt) \in Written

\* The directory of the module whose write_files call is next
NextDir == dirname(module_path(Head(todo), LoopExt))

\* C17: write_files writes in pre-order: for every module m of a
\* requested tree, when the file of a descendant of m was created, the
\* file of m is complete; when the file of a submodule was
\* created, every earlier submodule of the same parent is complete with
\* its whole subtree; and a directory is created only by the call of
\* write_files for a module whose directory is not accessible, which
\* creates that directory and its missing ancestors and nothing else.
C17_PreOrderLazyDirs ==
    /\ [](LoopExt # None =>
            \A m \in UNION {TreeOf(r) : r \in Range(args.modules)} :
               /\ \A d \in Descendants(m) : Touched(d) => Complete(m)
               /\ \A i, j \in 1..Len(submodules(m)) :
                     (i < j /\ Touched(submodules(m)[j])) =>
                        \A d \in TreeOf(submodules(m)[i]) : Complete(d))
    /\ [][dirs' # dirs =>
            /\ pc = "write" /\ todo # <<>>
            /\ ~access(NextDir)
            /\ dirs' = dirs \cup PathAndAncestors(NextDir)]_vars

\* C17 witness: without force the tree of p is being written; p.a, p.a.c
\* and p.a.c.d are done, their directories were created on the way, and
\* p.b, which needs no new directory, is next
C17_Witness ==
    /\ args.modules = <<n_p>> /\ ~args.force /\ LoopExt = EXT_HTML
    /\ pc = "write" /\ todo = <<n_pb, n_pi>>
    /\ Complete(n_pacd)
    /\ dirname(module_path(n_pacd, LoopExt)) \in dirs
    /\ ~Touched(n_pb)

\* C18: the class attributes of WebDoc (requested modules, render
\* configuration, and with the modules the output root) are set by main
\* before serving begins and no request changes them or the arguments;
\* the log suppression of a 304 HEAD stays with its request: every
\* answer with another status is logged, whatever was answered before.
C18_ConfigSetOnce ==
    /\ [](pc = "main" => WebDoc.args = None)
    /\ [](pc = "serve" =>
            /\ WebDoc.args = args
            /\ WebDoc.template_config = [link_prefix |-> <<"/">>]
            /\ WebDoc.log_request = "default")
    /\ [][pc = "serve" => (WebDoc' = WebDoc /\ args' = args)]_vars
    /\ [](resp.status = 304 => ~resp.logged)
    /\ [](resp.status \notin {0, 304} => resp.logged)

\* C18 witness: a HEAD was answered 304 and not logged, and the class
\* attributes are as main set them
C18_Witness ==
    /\ pc = "serve"
    /\ req.method = "HEAD" /\ resp.status = 304 /\ ~resp.logged
    /\ WebDoc.args = args /\ WebDoc.log_request = "default"

\* C19: a HEAD of a path other than '/' whose module resolves and that
\* carries no If-None-Match header is answered 304; an answer of 205 means
\* the request carried a tag and the tag differs from the current one.
C19_MissingTagIs304 ==
    (req.method = "HEAD" /\ resp.status # 0) =>
        /\ (req.path # <<"/">> /\ req.outcome = "ok"
            /\ req.headers.if_none_match = None) => resp.status = 304
        /\ resp.status = 205 =>
              /\ req.headers.if_none_match # None
              /\ req.headers.if_none_match # str(req.mtime)
              /\ req.path # <<"/">> /\ req.outcome = "ok"

\* C19 witness: a HEAD of /p/b.html without If-None-Match, p.b resolves,
\* and the answer is 304
C19_Witness ==
    /\ req.method = "HEAD" /\ req.path = <<"/", "p", "/", "b">> \o EXT_HTML
    /\ req.outcome = "ok" /\ req.headers.if_none_match = None
    /\ resp.status = 304

====
